---- MODULE Spec2Model ----
(***************************************************************************)
(* react-declassify: the ClassDeclaration visitor of src/index.ts and the  *)
(* rewriter transformClass it calls, over a small heap model of the AST.   *)
(*                                                                         *)
(* A node is [type, name, kids]; a NodePath is <<container, key>>: the id  *)
(* of the node that holds the slot and the index of the slot in its kids,  *)
(* so that path.replaceWith(n) is container.kids[key] := n, as in Babel.   *)
(* Every declaration of the file owns its own node store heap[i].          *)
(***************************************************************************)
EXTENDS Integers, Sequences, FiniteSets, TLC

VARIABLES
  file,      \* the class declarations of the file, in traversal order
  ts,        \* isTS(state)
  idx,       \* the declaration the traversal is at
  pc,        \* position inside the visitor / transformClass
  heap,      \* heap[i]: the nodes of declaration i
  program,   \* program[i]: the statements standing where declaration i stood
  comments,  \* comments[i]: leading comments of the export node and the class node
  body,      \* body[i]: the ComponentBody analyzeBody returned for declaration i
  result,    \* result[i]: what transformClass returned for declaration i
  imp,       \* the framework's import declaration and its scope
  log        \* every tree mutation applied so far, in order

vars == <<file, ts, idx, pc, heap, program, comments, body, result, imp, log>>

(***************************************************************************)
(* Bounds                                                                  *)
(***************************************************************************)
MaxDecls == 2
MaxStmts == 2

(***************************************************************************)
(* Sequence helpers                                                        *)
(***************************************************************************)
Range(s) == {s[i] : i \in 1..Len(s)}

RECURSIVE Flatten(_)
Flatten(ss) == IF ss = <<>> THEN <<>> ELSE Head(ss) \o Flatten(Tail(ss))

Reverse(s) == [i \in 1..Len(s) |-> s[Len(s) + 1 - i]]

(***************************************************************************)
(* AST nodes                                                               *)
(***************************************************************************)
N(type, name, kids) == [type |-> type, name |-> name, kids |-> kids]

Identifier(name) == N("Identifier", name, <<>>)
NoPath == <<0, 0>>

\* this.<name>, the object at node id obj
Member(name, obj) == N("MemberExpression", name, <<obj>>)

This == N("ThisExpression", "", <<>>)
Num(v) == N("NumericLiteral", v, <<>>)
ExprStmt(e) == N("ExpressionStatement", "", <<e>>)

(***************************************************************************)
(* The statements a class body is made of.  A statement is [t, k, j]; its  *)
(* nodes take the ids o+1, o+2, ... and its first node is the statement.   *)
(*   readState  this.state.k;                                              *)
(*   setLit     this.setState({k: 1});                                     *)
(*   setRead    this.setState({k: this.state.j});                          *)
(*   setInc     this.setState({k: this.state.j + 1});                      *)
(*   setTwo     this.setState({k: 1, j: 2});                               *)
(*   readProp   this.props.k;                                              *)
(*   bareProps  this.props;                                                *)
(*   aliasDecl  const {k: j} = this.props;                                 *)
(*   localDecl  const k = 0;                                               *)
(*   useId      k;                                                         *)
(*   readField  this.k;                                                    *)
(***************************************************************************)
St(t, k, j) == [t |-> t, k |-> k, j |-> j]

SetStateCall(o) ==
  << ExprStmt(o + 2),
     N("CallExpression", "", <<o + 3, o + 5>>),
     Member("setState", o + 4),
     This >>

StateRead(k, o) == << Member(k, o + 2), Member("state", o + 3), This >>

Frag(st, o) ==
  CASE st.t = "readState" -> <<ExprStmt(o + 2)>> \o StateRead(st.k, o + 1)
    [] st.t = "setLit" ->
         SetStateCall(o) \o
         << N("ObjectExpression", "", <<o + 6>>),
            N("ObjectProperty", st.k, <<o + 7>>),
            Num("1") >>
    [] st.t = "setRead" ->
         SetStateCall(o) \o
         << N("ObjectExpression", "", <<o + 6>>),
            N("ObjectProperty", st.k, <<o + 7>>) >> \o StateRead(st.j, o + 6)
    [] st.t = "setInc" ->
         SetStateCall(o) \o
         << N("ObjectExpression", "", <<o + 6>>),
            N("ObjectProperty", st.k, <<o + 7>>),
            N("BinaryExpression", "+", <<o + 8, o + 11>>) >>
         \o StateRead(st.j, o + 7) \o <<Num("1")>>
    [] st.t = "setTwo" ->
         SetStateCall(o) \o
         << N("ObjectExpression", "", <<o + 6, o + 8>>),
            N("ObjectProperty", st.k, <<o + 7>>),
            Num("1"),
            N("ObjectProperty", st.j, <<o + 9>>),
            Num("2") >>
    [] st.t = "readProp" ->
         << ExprStmt(o + 2), Member(st.k, o + 3), Member("props", o + 4), This >>
    [] st.t = "bareProps" ->
         << ExprStmt(o + 2), Member("props", o + 3), This >>
    [] st.t = "aliasDecl" ->
         << N("VariableDeclaration", st.k, <<o + 2, o + 3>>),
            Identifier(st.j), Member("props", o + 4), This >>
    [] st.t = "localDecl" ->
         << N("VariableDeclaration", "", <<o + 2, o + 3>>),
            Identifier(st.k), Num("0") >>
    [] st.t = "useId" -> << ExprStmt(o + 2), Identifier(st.k) >>
    [] st.t = "readField" -> << ExprStmt(o + 2), Member(st.k, o + 3), This >>

\* Node 1 is the render method's body; statement i starts after Offset(stmts, i).
RECURSIVE Offset(_, _)
Offset(stmts, i) ==
  IF i = 1 THEN 1 ELSE Offset(stmts, i - 1) + Len(Frag(stmts[i - 1], 0))

BuildHeap(stmts) ==
  << N("BlockStatement", "", [i \in 1..Len(stmts) |-> Offset(stmts, i) + 1]) >>
  \o Flatten([i \in 1..Len(stmts) |-> Frag(stmts[i], Offset(stmts, i))])

(***************************************************************************)
(* A class declaration of the input file.                                  *)
(*   shape    "plain" | "exportNamed" (export default class X) |           *)
(*            "exportAnon" (export default class)                          *)
(*   outcome  what the analyzers do: "skip" (analyzeHead returns nothing), *)
(*            "diag" (analyzeBody throws AnalysisError), "defect" (it      *)
(*            throws something else), "ok"                                 *)
(*   ref      head.superClassRef: "global" | "ns" | "named"                *)
(*   propsType  head.props is present                                      *)
(*   props    <<[name, dflt, typing]>>, state <<[name, init, typed]>>,     *)
(*   fields   <<[name, type, typed]>>, stmts the statements of the body,   *)
(*   order    the order in which the analyzer records the sites of one     *)
(*            statement: outermost first ("pre") or innermost first        *)
(***************************************************************************)
ClassId(i) == "C" \o ToString(i)

Setter(k) == "set_" \o k

\* The nodes outside the render body: one literal per state initializer, per
\* prop default and per direct-ref initializer, one method per bound function.
InitNodes(cls) ==
  [i \in 1..Len(cls.state) |-> Num("init:" \o cls.state[i].name)]
  \o [i \in 1..Len(cls.props) |-> Num("dflt:" \o cls.props[i].name)]
  \o [i \in 1..Len(cls.fields) |->
        IF cls.fields[i].type = "user_defined_function"
        THEN N("ClassMethod", cls.fields[i].name, <<>>)
        ELSE Num("init:" \o cls.fields[i].name)]

ClassHeap(cls) == BuildHeap(cls.stmts) \o InitNodes(cls)

StateInitId(cls, i) == Len(BuildHeap(cls.stmts)) + i
PropDefaultId(cls, i) == Len(BuildHeap(cls.stmts)) + Len(cls.state) + i
FieldInitId(cls, i) ==
  Len(BuildHeap(cls.stmts)) + Len(cls.state) + Len(cls.props) + i

Site(owner, name, type, path, valuePath) ==
  [owner |-> owner, name |-> name, type |-> type, path |-> path,
   valuePath |-> valuePath]

\* The sites of one statement, outermost first.
StmtSitesPre(st, o) ==
  CASE st.t = "readState" -> <<Site("state", st.k, "expr", <<o + 1, 1>>, NoPath)>>
    [] st.t = "setLit" ->
         <<Site("state", st.k, "setState", <<o + 1, 1>>, <<o + 6, 1>>)>>
    [] st.t = "setRead" ->
         << Site("state", st.k, "setState", <<o + 1, 1>>, <<o + 6, 1>>),
            Site("state", st.j, "expr", <<o + 6, 1>>, NoPath) >>
    [] st.t = "setInc" ->
         << Site("state", st.k, "setState", <<o + 1, 1>>, <<o + 6, 1>>),
            Site("state", st.j, "expr", <<o + 7, 1>>, NoPath) >>
    [] st.t = "setTwo" ->
         << Site("state", st.k, "setState", <<o + 1, 1>>, <<o + 6, 1>>),
            Site("state", st.j, "setState", <<o + 1, 1>>, <<o + 8, 1>>) >>
    [] st.t = "readProp" ->
         << Site("prop", st.k, "expr", <<o + 1, 1>>, NoPath),
            Site("props", "props", "expr", <<o + 2, 1>>, NoPath) >>
    [] st.t = "bareProps" ->
         <<Site("props", "props", "expr", <<o + 1, 1>>, NoPath)>>
    [] st.t = "readField" ->
         <<Site("field", st.k, "expr", <<o + 1, 1>>, NoPath)>>
    [] OTHER -> <<>>

StmtSites(st, o, order) ==
  IF order = "pre" THEN StmtSitesPre(st, o) ELSE Reverse(StmtSitesPre(st, o))

AllSites(cls) ==
  Flatten([i \in 1..Len(cls.stmts) |->
             StmtSites(cls.stmts[i], Offset(cls.stmts, i), cls.order)])

SitesOf(cls, owner, name) ==
  SelectSeq(AllSites(cls), LAMBDA s : s.owner = owner /\ s.name = name)

\* The local names the rewritten function binds for props, state and fields.
ChosenNames(cls) ==
  {cls.props[i].name : i \in 1..Len(cls.props)}
  \cup {cls.state[i].name : i \in 1..Len(cls.state)}
  \cup {Setter(cls.state[i].name) : i \in 1..Len(cls.state)}
  \cup {cls.fields[i].name : i \in 1..Len(cls.fields)}

HasDefaults(cls) == \E i \in 1..Len(cls.props) : cls.props[i].dflt

PropAliases(cls, name) ==
  LET ds == SelectSeq(cls.stmts, LAMBDA st : st.t = "aliasDecl" /\ st.k = name)
  IN  [i \in 1..Len(ds) |-> [localName |-> ds[i].j]]

\* analyzeBody's result on a class it accepts.
AnalyzeBody(cls) ==
  [ props |->
      [ hasDefaults |-> HasDefaults(cls),
        sites |-> SitesOf(cls, "props", "props"),
        props |->
          [i \in 1..Len(cls.props) |->
            [ name |-> cls.props[i].name,
              aliases |-> PropAliases(cls, cls.props[i].name),
              newAliasName |-> cls.props[i].name,
              defaultValue |-> IF cls.props[i].dflt THEN PropDefaultId(cls, i) ELSE 0,
              typing |-> cls.props[i].typing,
              needsAlias |-> \/ HasDefaults(cls)
                             \/ PropAliases(cls, cls.props[i].name) # <<>>,
              sites |-> SitesOf(cls, "prop", cls.props[i].name) ]] ],
    state |->
      [i \in 1..Len(cls.state) |->
        [ name |-> cls.state[i].name,
          localName |-> cls.state[i].name,
          localSetterName |-> Setter(cls.state[i].name),
          init |-> IF cls.state[i].init THEN StateInitId(cls, i) ELSE 0,
          typeAnnotation |-> cls.state[i].typed,
          sites |-> SitesOf(cls, "state", cls.state[i].name) ]],
    fields |->
      [i \in 1..Len(cls.fields) |->
        [ name |-> cls.fields[i].name,
          type |-> cls.fields[i].type,
          localName |-> cls.fields[i].name,
          init |-> FieldInitId(cls, i),
          typeAnnotation |-> cls.fields[i].typed,
          sites |-> SitesOf(cls, "field", cls.fields[i].name) ]],
    removePaths |->
      LET roots == [i \in 1..Len(cls.stmts) |->
                      [t |-> cls.stmts[i].t, id |-> Offset(cls.stmts, i) + 1]]
          ds == SelectSeq(roots, LAMBDA r : r.t = "aliasDecl")
      IN  [i \in 1..Len(ds) |-> ds[i].id],
    render |->
      [ path |-> 1,
        renames |->
          LET ds == SelectSeq(cls.stmts,
                      LAMBDA st : st.t = "localDecl" /\ st.k \in ChosenNames(cls))
          IN  [i \in 1..Len(ds) |->
                 [oldName |-> ds[i].k, newName |-> "_" \o ds[i].k]] ] ]

\* needsProps(body): the function still refers to props.
NeedsProps(b) ==
  \/ b.props.sites # <<>>
  \/ \E i \in 1..Len(b.props.props) : b.props.props[i].needsAlias

NoBody == [none |-> TRUE]

(***************************************************************************)
(* Tree primitives (Babel's NodePath and Scope operations)                 *)
(***************************************************************************)
NodeAt(h, path) == h[path[1]].kids[path[2]]

\* path.replaceWith(node): the slot the path stands for now holds the node.
ReplaceWith(h, path, id) == [h EXCEPT ![path[1]].kids[path[2]] = id]

\* path.remove() of a statement: it leaves the list that holds it.
RemoveNode(h, id) ==
  [n \in 1..Len(h) |->
     IF h[n].type = "BlockStatement"
     THEN [h[n] EXCEPT !.kids = SelectSeq(h[n].kids, LAMBDA k : k # id)]
     ELSE h[n]]

\* scope.rename(old, new): every identifier of the scope named old.
Rename(h, old, new) ==
  [n \in 1..Len(h) |->
     IF h[n].type = "Identifier" /\ h[n].name = old
     THEN [h[n] EXCEPT !.name = new]
     ELSE h[n]]

RECURSIVE ReachFrom(_, _, _)
ReachFrom(h, frontier, seen) ==
  IF frontier = {} THEN seen
  ELSE LET next == UNION {Range(h[n].kids) : n \in frontier} \ (seen \cup frontier)
       IN  ReachFrom(h, next, seen \cup frontier)

Reach(h, roots) == ReachFrom(h, roots, {})

(***************************************************************************)
(* transformClass, step by step.  A step turns a context                   *)
(* [heap, body, log, imp] into          the next one; the log gains one   *)
(* entry per mutation of the tree, in the order the code applies them.     *)
(***************************************************************************)
Ev(op, name) == [op |-> op, name |-> name]

\* One mutation of the rewriter.
Apply(c, m) ==
  CASE m.op = "rename" ->
         [c EXCEPT !.heap = Rename(c.heap, m.old, m.new),
                   !.log = Append(c.log, Ev("aliasRename", m.old))]
    [] m.op = "renderRename" ->
         [c EXCEPT !.heap = Rename(c.heap, m.old, m.new),
                   !.log = Append(c.log, Ev("renderRename", m.old))]
    [] m.op = "remove" ->
         [c EXCEPT !.heap = RemoveNode(c.heap, m.id),
                   !.log = Append(c.log, Ev("remove", ""))]
    [] m.op = "propSite" ->
         \* this.props.foo -> foo
         [c EXCEPT !.heap = ReplaceWith(Append(c.heap, Identifier(m.new)),
                                        m.path, Len(c.heap) + 1),
                   !.log = Append(c.log, Ev("propSite", m.new))]
    [] m.op = "propsObjSite" ->
         \* this.props -> props: the member expression's own property node
         [c EXCEPT !.heap =
                      ReplaceWith(
                        Append(c.heap, Identifier(c.heap[NodeAt(c.heap, m.path)].name)),
                        m.path, Len(c.heap) + 1),
                   !.log = Append(c.log, Ev("propsObjSite", "props"))]
    [] m.op = "stateRead" ->
         \* this.state.foo -> foo
         [c EXCEPT !.heap = ReplaceWith(Append(c.heap, Identifier(m.new)),
                                        m.path, Len(c.heap) + 1),
                   !.log = Append(c.log, Ev("stateSite", m.new))]
    [] m.op = "setState" ->
         \* this.setState({ foo: 1 }) -> setFoo(1)
         [c EXCEPT !.heap =
                      ReplaceWith(
                        c.heap \o
                          << Identifier(m.new),
                             N("CallExpression", "",
                               <<Len(c.heap) + 1, NodeAt(c.heap, m.valuePath)>>) >>,
                        m.path, Len(c.heap) + 2),
                   !.log = Append(c.log, Ev("stateSite", m.new))]
    [] m.op = "fieldRead" ->
         \* this.foo -> foo
         [c EXCEPT !.heap = ReplaceWith(Append(c.heap, Identifier(m.new)),
                                        m.path, Len(c.heap) + 1),
                   !.log = Append(c.log, Ev("fieldSite", m.new))]
    [] m.op = "fieldCurrent" ->
         \* this.foo -> foo.current
         [c EXCEPT !.heap =
                      ReplaceWith(
                        c.heap \o
                          << Identifier(m.new), Member("current", Len(c.heap) + 1) >>,
                        m.path, Len(c.heap) + 2),
                   !.log = Append(c.log, Ev("fieldSite", m.new))]

RECURSIVE ApplyAll(_, _)
ApplyAll(c, ms) == IF ms = <<>> THEN c ELSE ApplyAll(Apply(c, Head(ms)), Tail(ms))

Mut(op, path, valuePath, old, new, id) ==
  [op |-> op, path |-> path, valuePath |-> valuePath, old |-> old, new |-> new,
   id |-> id]

\* lines 88-97: rename the variables props are bound to
AliasRenames(b) ==
  Flatten([i \in 1..Len(b.props.props) |->
    LET prop == b.props.props[i]
        as == SelectSeq(prop.aliases, LAMBDA a : a.localName # prop.newAliasName)
    IN  [j \in 1..Len(as) |->
           Mut("rename", NoPath, NoPath, as[j].localName, prop.newAliasName, 0)]])

\* lines 98-100
Removals(b) ==
  [i \in 1..Len(b.removePaths) |->
     Mut("remove", NoPath, NoPath, "", "", b.removePaths[i])]

\* lines 101-105: rename the local variables of the render method
RenderRenames(b) ==
  [i \in 1..Len(b.render.renames) |->
     Mut("renderRename", NoPath, NoPath,
         b.render.renames[i].oldName, b.render.renames[i].newName, 0)]

\* lines 106-118
PropSiteRewrites(b) ==
  IF b.props.hasDefaults
  THEN Flatten([i \in 1..Len(b.props.props) |->
         LET prop == b.props.props[i]
         IN  [j \in 1..Len(prop.sites) |->
                Mut("propSite", prop.sites[j].path, NoPath, "", prop.newAliasName, 0)]])
  ELSE [j \in 1..Len(b.props.sites) |->
          Mut("propsObjSite", b.props.sites[j].path, NoPath, "", "", 0)]

\* lines 148-163
StateSiteRewrite(field, site) ==
  IF site.type = "expr"
  THEN Mut("stateRead", site.path, NoPath, "", field.localName, 0)
  ELSE Mut("setState", site.path, site.valuePath, "", field.localSetterName, 0)

StateSiteRewrites(b) ==
  Flatten([i \in 1..Len(b.state) |->
    [j \in 1..Len(b.state[i].sites) |->
       StateSiteRewrite(b.state[i], b.state[i].sites[j])]])

FieldSiteRewriteAllBare(field, site) ==
  Mut("fieldRead", site.path, NoPath, "", field.localName, 0)

\* lines 164-185
FieldSiteRewrite(field, site) ==
  IF field.type \in {"user_defined_function", "user_defined_ref"}
  THEN Mut("fieldRead", site.path, NoPath, "", field.localName, 0)
  ELSE Mut("fieldCurrent", site.path, NoPath, "", field.localName, 0)

FieldSiteRewrites(b) ==
  Flatten([i \in 1..Len(b.fields) |->
    LET ss == SelectSeq(b.fields[i].sites, LAMBDA s : s.type = "expr")
    IN  [j \in 1..Len(ss) |-> FieldSiteRewrite(b.fields[i], ss[j])]])

(***************************************************************************)
(* lines 119-147: props with a default value become optional               *)
(* A typing is [sig, optional, hasAnnot, union, types]: the kind of the    *)
(* signature ("none" when the prop has no typing), its optional flag,      *)
(* whether it carries a type annotation, and the annotated type: a union   *)
(* of the listed types, or the single listed type.                         *)
(***************************************************************************)
Typing(sig, hasAnnot, union, types) ==
  [sig |-> sig, optional |-> FALSE, hasAnnot |-> hasAnnot, union |-> union,
   types |-> types]

NoTyping == Typing("none", FALSE, FALSE, <<>>)

WidenAnnotation(ty) ==
  IF ty.union
  THEN IF \E i \in 1..Len(ty.types) : ty.types[i] = "undefined"
       THEN ty                                         \* no need to add undefined
       ELSE [ty EXCEPT !.types = Append(ty.types, "undefined")]
  ELSE [ty EXCEPT !.union = TRUE, !.types = ty.types \o <<"undefined">>]

MakeOptional(prop) ==
  IF prop.defaultValue # 0 /\ prop.typing.sig # "none"
  THEN LET opt == [prop.typing EXCEPT !.optional = TRUE]
       IN  [prop EXCEPT !.typing =
              IF opt.sig = "TSPropertySignature" /\ opt.hasAnnot
              THEN WidenAnnotation(opt)
              ELSE opt]
  ELSE prop

TypingStep(c) ==
  LET ps == c.body.props.props
      touched == SelectSeq(ps, LAMBDA q : MakeOptional(q) # q)
  IN  [c EXCEPT !.body.props.props = [i \in 1..Len(ps) |-> MakeOptional(ps[i])],
                !.log = c.log \o [i \in 1..Len(touched) |-> Ev("typing", touched[i].name)]]

(***************************************************************************)
(* lines 343-377: getReactImport                                           *)
(* imp is [specifiers, bindings, uids, calls, given]: the specifiers       *)
(* [imported, local] of the import declaration, the names bound in its     *)
(* scope, the names generateUid has handed out, the calls made so far      *)
(* and the number of specifiers the file came with.                        *)
(***************************************************************************)
GlobalName == "React"
NsLocal == "ReactNS"

Expr(object, name) == [object |-> object, name |-> name]

UidName(name, i) == IF i = 1 THEN "_" \o name ELSE "_" \o name \o ToString(i)

\* scope.generateUid(name): the first of _name, _name2, ... that is not taken
GenerateUid(name, taken) ==
  LET i == CHOOSE k \in 1..(Cardinality(taken) + 1) :
             /\ UidName(name, k) \notin taken
             /\ \A l \in 1..(k - 1) : UidName(name, l) \in taken
  IN  UidName(name, i)

NewSpecifier(name, newName) == [imported |-> newName, local |-> newName]

GetReactImport(name, ref, im) ==
  IF ref = "global" THEN [expr |-> Expr(GlobalName, name), imp |-> im, added |-> FALSE]
  ELSE IF ref = "ns" THEN [expr |-> Expr(NsLocal, name), imp |-> im, added |-> FALSE]
  ELSE
    LET found == SelectSeq(im.specifiers, LAMBDA sp : sp.imported = name)
    IN  IF found # <<>>
        THEN [expr |-> Expr("", found[1].local), added |-> FALSE,
              imp |-> [im EXCEPT !.calls = Append(@, [name |-> name, local |-> found[1].local])]]
        ELSE \* No existing decl
          LET bound == name \in im.bindings
              newName == IF bound THEN GenerateUid(name, im.bindings \cup im.uids)
                         ELSE name
          IN  [expr |-> Expr("", newName), added |-> TRUE,
               imp |-> [im EXCEPT
                 !.specifiers = Append(@, NewSpecifier(name, newName)),
                 !.uids = IF bound THEN @ \cup {newName} ELSE @,
                 !.calls = Append(@, [name |-> name, local |-> newName])]]

\* The calls of one transformClass run, in order: one useState per state field,
\* one useRef per ref field, FC for the type of a TypeScript file.
Requests(b, isTs) ==
  [i \in 1..Len(b.state) |-> "useState"]
  \o [i \in 1..Len(SelectSeq(b.fields, LAMBDA f : f.type # "user_defined_function"))
        |-> "useRef"]
  \o (IF isTs THEN <<"FC">> ELSE <<>>)

\* [imp, exprs, log] after the first n requests.
RECURSIVE ImportRun(_, _, _, _, _)
ImportRun(names, n, ref, im, lg) ==
  IF n = 0 THEN [imp |-> im, exprs |-> <<>>, log |-> lg]
  ELSE LET prev == ImportRun(names, n - 1, ref, im, lg)
           r == GetReactImport(names[n], ref, prev.imp)
       IN  [imp |-> r.imp, exprs |-> Append(prev.exprs, r.expr),
            log |-> IF r.added THEN Append(prev.log, Ev("import", r.expr.name))
                    ELSE prev.log]

(***************************************************************************)
(* lines 186-311: the preamble.  A statement of it is                      *)
(*   destructure  const { key: local = dflt, ... } = props;                *)
(*   state        const [name, setter] = callee(args);                     *)
(*   function     function name() { ... }                                  *)
(*   ref          const name = callee(args);                               *)
(* args are node ids; typed says the call carries type parameters.         *)
(***************************************************************************)
NoExpr == Expr("", "")

PStmt(kind, name, setter, callee, args, typed, props) ==
  [kind |-> kind, name |-> name, setter |-> setter, callee |-> callee,
   args |-> args, typed |-> typed, props |-> props]

PropsWithAlias(b) == SelectSeq(b.props.props, LAMBDA q : q.needsAlias)

DestructuringDefaultsOnly(b) ==
  LET ps == SelectSeq(b.props.props, LAMBDA q : q.defaultValue # 0)
  IN  IF Len(ps) > 0
      THEN << PStmt("destructure", "props", "", NoExpr, <<>>, FALSE,
                [i \in 1..Len(ps) |->
                   [ key |-> ps[i].name,
                     local |-> ps[i].newAliasName,
                     dflt |-> ps[i].defaultValue,
                     shorthand |-> ps[i].name = ps[i].newAliasName ]]) >>
      ELSE <<>>

\* lines 188-210
Destructuring(b) ==
  LET ps == PropsWithAlias(b)
  IN  IF Len(ps) > 0
      THEN << PStmt("destructure", "props", "", NoExpr, <<>>, FALSE,
                [i \in 1..Len(ps) |->
                   [ key |-> ps[i].name,
                     local |-> ps[i].newAliasName,
                     dflt |-> ps[i].defaultValue,
                     shorthand |-> ps[i].name = ps[i].newAliasName ]]) >>
      ELSE <<>>

StateDeclarationNoInit(field, callee, isTs) ==
  PStmt("state", field.localName, field.localSetterName, callee, <<>>,
        isTs /\ field.typeAnnotation, <<>>)

\* lines 211-239
StateDeclaration(field, callee, isTs) ==
  PStmt("state", field.localName, field.localSetterName, callee,
        IF field.init # 0 THEN <<field.init>> ELSE <<>>,
        isTs /\ field.typeAnnotation, <<>>)

\* lines 240-311; nullId is the id of the null literal made for a ref container
FieldDeclaration(field, callee, nullId, isTs) ==
  IF field.type = "user_defined_function"
  THEN PStmt("function", field.localName, "", NoExpr, <<field.init>>, FALSE, <<>>)
  ELSE IF field.type = "user_defined_ref"
  THEN PStmt("ref", field.localName, "", callee, <<nullId>>,
             isTs /\ field.typeAnnotation, <<>>)
  ELSE PStmt("ref", field.localName, "", callee, <<field.init>>,
             isTs /\ field.typeAnnotation, <<>>)

\* How many of the first i fields call useRef.
RefRank(b, i) ==
  Cardinality({j \in 1..i : b.fields[j].type # "user_defined_function"})

BuildPreamble(b, exprs, heapLen, isTs) ==
  Destructuring(b)
  \o [i \in 1..Len(b.state) |-> StateDeclaration(b.state[i], exprs[i], isTs)]
  \o [i \in 1..Len(b.fields) |->
        FieldDeclaration(
          b.fields[i],
          IF b.fields[i].type = "user_defined_function" THEN NoExpr
          ELSE exprs[Len(b.state) + RefRank(b, i)],
          heapLen + RefRank(b, i), isTs)]

FuncParamsFromSites(b) == IF b.props.sites # <<>> THEN <<"props">> ELSE <<>>

\* lines 314-327
FuncParams(b) == IF NeedsProps(b) THEN <<"props">> ELSE <<>>

TypeNode(isTs, fc, hasPropsType) ==
  [present |-> isTs, entity |-> IF isTs THEN fc ELSE NoExpr,
   params |-> isTs /\ hasPropsType]

RewritesSitesFirst(b) ==
  AliasRenames(b) \o Removals(b) \o PropSiteRewrites(b) \o RenderRenames(b)

\* The tree mutations of lines 88-118 and of lines 148-185, in the code's order.
RewritesBeforeTyping(b) ==
  AliasRenames(b) \o Removals(b) \o RenderRenames(b) \o PropSiteRewrites(b)

RewritesAfterTyping(b) == StateSiteRewrites(b) \o FieldSiteRewrites(b)

\* lines 84-328
TransformClass(cls, b, isTs, h, im) ==
  LET c0 == [heap |-> h, body |-> b, log |-> <<>>, imp |-> im]
      c1 == ApplyAll(c0, RewritesBeforeTyping(b))
      c2 == TypingStep(c1)
      c3 == ApplyAll(c2, RewritesAfterTyping(b))
      reqs == Requests(b, FALSE)
      run == ImportRun(reqs, Len(reqs), cls.ref, im, c3.log)
      nRefs == RefRank(b, Len(b.fields))
      spliced == Append(run.log, Ev("splice", ""))
      fc == GetReactImport("FC", cls.ref, run.imp)
  IN  [ heap |-> c3.heap \o [i \in 1..nRefs |-> N("NullLiteral", "", <<>>)],
        body |-> c3.body,
        imp |-> IF isTs THEN fc.imp ELSE run.imp,
        log |-> IF isTs /\ fc.added THEN Append(spliced, Ev("import", fc.expr.name))
                ELSE spliced,
        result |->
          [ done |-> TRUE,
            params |-> FuncParams(b),
            preamble |-> BuildPreamble(c3.body, run.exprs, Len(c3.heap), isTs),
            body |-> b.render.path,
            typeNode |-> TypeNode(isTs, fc.expr, cls.propsType) ] ]

NoResult ==
  [done |-> FALSE, params |-> <<>>, preamble |-> <<>>, body |-> 0,
   typeNode |-> TypeNode(FALSE, NoExpr, FALSE)]

(***************************************************************************)
(* The visitor, lines 13-74                                                *)
(***************************************************************************)
DiagnosticText(message) ==
  " react-declassify-disable Cannot perform transformation: " \o message \o " "

Comment(text, flagged) == [text |-> text, flagged |-> flagged]

\* t.addComment(node, "leading", text): the new comment goes first
AddLeadingComment(nc, text) ==
  [nc EXCEPT !.leading = <<Comment(text, FALSE)>> \o @]

\* lines 451-466
RefreshComments(nc) ==
  LET flagged == [i \in 1..Len(nc.leading) |-> [nc.leading[i] EXCEPT !.flagged = TRUE]]
  IN  [leading |-> flagged, comments |-> flagged, original |-> FALSE]

PStatement(type, id, init, typed) ==
  [type |-> type, id |-> id, init |-> init, typed |-> typed]

\* The statements of the file a declaration is before it is visited.
Original(cls, i) ==
  IF cls.shape = "plain"
  THEN <<PStatement("ClassDeclaration", ClassId(i), "class", FALSE)>>
  ELSE <<PStatement("ExportDefaultDeclaration",
                    IF cls.shape = "exportNamed" THEN ClassId(i) ELSE "",
                    "class", FALSE)>>

IsDefaultExport(cls) == cls.shape # "plain"
HasId(cls) == cls.shape # "exportAnon"

ReplaceDefaultExportUnexported(cls, i, isTs) ==
  IF HasId(cls)
  THEN << PStatement("VariableDeclaration", ClassId(i), "function", isTs) >>
  ELSE << PStatement("ExportDefaultDeclaration", "", "function", FALSE) >>

\* lines 24-43
ReplaceDefaultExport(cls, i, isTs) ==
  IF HasId(cls)
  THEN << PStatement("VariableDeclaration", ClassId(i), "function", isTs),
          PStatement("ExportDefaultDeclaration", ClassId(i), "identifier", FALSE) >>
  ELSE << PStatement("ExportDefaultDeclaration", "", "function", FALSE) >>

\* lines 55-65
ReplacePlain(cls, i, isTs) ==
  << PStatement("VariableDeclaration", ClassId(i), "function", isTs) >>

Cls == file[idx]
Visiting == pc = "traversing" /\ idx <= Len(file)

\* lines 15-18: analyzeHead found no component
VisitSkip ==
  /\ Visiting
  /\ Cls.outcome = "skip"
  /\ idx' = idx + 1
  /\ UNCHANGED <<file, ts, pc, heap, program, comments, body, result, imp, log>>

\* lines 21-43 and 52-65: the class is analyzed, rewritten and replaced
Transformed(replacement) ==
  LET b == AnalyzeBody(Cls)
      r == TransformClass(Cls, b, ts, heap[idx], imp)
  IN  /\ heap' = [heap EXCEPT ![idx] = r.heap]
      /\ body' = [body EXCEPT ![idx] = r.body]
      /\ result' = [result EXCEPT ![idx] = r.result]
      /\ imp' = r.imp
      /\ log' = [log EXCEPT ![idx] = Append(r.log, Ev("replace", ""))]
      /\ program' = [program EXCEPT ![idx] = replacement]
      /\ idx' = idx + 1
      /\ UNCHANGED <<file, ts, pc, comments>>

VisitDefaultExport ==
  /\ Visiting
  /\ Cls.outcome = "ok"
  /\ IsDefaultExport(Cls)
  /\ Transformed(ReplaceDefaultExport(Cls, idx, ts))

VisitPlain ==
  /\ Visiting
  /\ Cls.outcome = "ok"
  /\ ~IsDefaultExport(Cls)
  /\ Transformed(ReplacePlain(Cls, idx, ts))

\* lines 44-50 and 66-72: the diagnostic becomes a comment
CommentedNodeAlwaysClass(cls) == "class"

CommentedNode(cls) == IF IsDefaultExport(cls) THEN "export" ELSE "class"

VisitDiagnostic ==
  /\ Visiting
  /\ Cls.outcome = "diag"
  /\ comments' = [comments EXCEPT ![idx][CommentedNode(Cls)] =
                    RefreshComments(AddLeadingComment(@, DiagnosticText(Cls.message)))]
  /\ log' = [log EXCEPT ![idx] = Append(@, Ev("comment", Cls.message))]
  /\ idx' = idx + 1
  /\ UNCHANGED <<file, ts, pc, heap, program, body, result, imp>>

\* lines 45-47 and 67-69: any other exception leaves the visitor
VisitDefect ==
  /\ Visiting
  /\ Cls.outcome = "defect"
  /\ pc' = "aborted"
  /\ UNCHANGED <<file, ts, idx, heap, program, comments, body, result, imp, log>>

Next ==
  \/ VisitSkip
  \/ VisitDefaultExport
  \/ VisitPlain
  \/ VisitDiagnostic
  \/ VisitDefect

(***************************************************************************)
(* The input files.  A run is a file, the language flag and the import     *)
(* declaration the file starts with.                                       *)
(***************************************************************************)
NonEmptySeqs(S, n) == UNION {[1..m -> S] : m \in 1..n}

Prop(name, dflt, typing) == [name |-> name, dflt |-> dflt, typing |-> typing]
StateKey(name, init, typed) == [name |-> name, init |-> init, typed |-> typed]
Field(name, type, typed) == [name |-> name, type |-> type, typed |-> typed]

BaseClass ==
  [ shape |-> "plain", outcome |-> "ok", message |-> "", lead |-> FALSE,
    ref |-> "named", propsType |-> FALSE, props |-> <<>>, state |-> <<>>,
    fields |-> <<>>, stmts |-> <<>>, order |-> "pre" ]

Specifier(imported, local) == [imported |-> imported, local |-> local]

ImportOf(specifiers, others) ==
  [ specifiers |-> specifiers,
    bindings |-> {specifiers[i].local : i \in 1..Len(specifiers)} \cup others,
    uids |-> {}, calls |-> <<>>, given |-> Len(specifiers) ]

BaseImport == ImportOf(<<Specifier("Component", "Component")>>, {})

\* Every shape of declaration and every outcome of the analyzers.
VisitorClasses ==
  { [BaseClass EXCEPT !.shape = sh, !.outcome = oc.o, !.message = oc.m, !.lead = oc.l,
                      !.state = <<StateKey("a", TRUE, FALSE)>>,
                      !.stmts = <<St("readState", "a", "")>>] :
      sh \in {"plain", "exportNamed", "exportAnon"},
      oc \in { [o |-> "skip", m |-> "", l |-> FALSE],
               [o |-> "defect", m |-> "", l |-> FALSE],
               [o |-> "ok", m |-> "", l |-> FALSE],
               [o |-> "diag", m |-> "unsupported state key", l |-> FALSE],
               [o |-> "diag", m |-> "unsupported field", l |-> TRUE] } }

\* State fields and the statements that read and update them.
StateConfigs ==
  { <<StateKey("a", TRUE, FALSE)>>,
    <<StateKey("a", FALSE, TRUE)>>,
    <<StateKey("a", TRUE, TRUE), StateKey("b", FALSE, FALSE)>>,
    <<StateKey("b", TRUE, FALSE), StateKey("a", TRUE, FALSE)>> }

StateStmts ==
  { St("readState", "a", ""), St("readState", "b", ""), St("setLit", "a", ""),
    St("setRead", "a", "b"), St("setRead", "a", "a"), St("setInc", "a", "a"),
    St("setInc", "b", "a"), St("setTwo", "a", "b"), St("localDecl", "a", ""),
    St("useId", "a", "") }

\* The props, state keys and fields a statement names.
KeysOf(st) ==
  CASE st.t \in {"localDecl", "useId", "bareProps"} -> {}
    [] st.t \in {"setRead", "setInc", "setTwo"} -> {st.k, st.j}
    [] OTHER -> {st.k}

StmtsOver(S, keys) ==
  { x \in NonEmptySeqs(S, MaxStmts) : \A i \in 1..Len(x) : KeysOf(x[i]) \subseteq keys }

StateClasses ==
  UNION { { [BaseClass EXCEPT !.state = sc, !.stmts = ss, !.order = od] :
              od \in {"pre", "post"},
              ss \in StmtsOver(StateStmts, {sc[n].name : n \in 1..Len(sc)}) } :
          sc \in StateConfigs }

\* Props with and without defaults and aliases, and the statements reading them.
PropConfigs ==
  { <<Prop("foo", d, NoTyping)>> : d \in BOOLEAN }
  \cup { <<Prop("foo", d, NoTyping), Prop("bar", e, NoTyping)>> : d, e \in BOOLEAN }

PropStmts ==
  { St("readProp", "foo", ""), St("readProp", "bar", ""), St("bareProps", "", ""),
    St("aliasDecl", "foo", "foo1"), St("aliasDecl", "bar", "bar"),
    St("useId", "foo1", "") }

PropClasses ==
  UNION { { [BaseClass EXCEPT !.props = pc_, !.stmts = ss] :
              ss \in { x \in StmtsOver(PropStmts, {pc_[n].name : n \in 1..Len(pc_)}) :
                         (\E n \in 1..Len(pc_) : pc_[n].dflt)
                           => \A i \in 1..Len(x) : x[i].t # "bareProps" } } :
          pc_ \in PropConfigs }

\* Every shape of declared type of a prop.
TypeShapes ==
  { NoTyping,
    Typing("TSPropertySignature", TRUE, FALSE, <<"number">>),
    Typing("TSPropertySignature", TRUE, TRUE, <<"number", "string">>),
    Typing("TSPropertySignature", TRUE, TRUE, <<"number", "undefined">>),
    Typing("TSPropertySignature", TRUE, TRUE, <<"undefined", "string">>),
    Typing("TSPropertySignature", TRUE, FALSE, <<"undefined">>),
    Typing("TSPropertySignature", FALSE, FALSE, <<>>),
    Typing("TSMethodSignature", FALSE, FALSE, <<>>) }

TypingClasses ==
  { [BaseClass EXCEPT !.props = ps, !.propsType = TRUE, !.shape = sh,
                      !.stmts = <<St("readProp", "foo", "")>>] :
      sh \in {"plain", "exportNamed"},
      ps \in { <<Prop("foo", d, ty)>> : d \in BOOLEAN, ty \in TypeShapes }
             \cup { <<Prop("foo", TRUE, ty), Prop("bar", FALSE, uy)>> :
                      ty, uy \in TypeShapes } }

\* User-defined fields and their reads.
FieldConfigs ==
  UNION { { <<Field("r", "user_defined_ref", ty)>>,
            <<Field("d", "user_defined_direct_ref", ty)>>,
            <<Field("m", "user_defined_function", FALSE),
              Field("r", "user_defined_ref", ty),
              Field("d", "user_defined_direct_ref", FALSE)>>,
            <<Field("d", "user_defined_direct_ref", ty),
              Field("m", "user_defined_function", FALSE),
              Field("r", "user_defined_ref", TRUE)>> } : ty \in BOOLEAN }

FieldStmts ==
  { St("readField", "r", ""), St("readField", "d", ""), St("readField", "m", "") }

FieldClasses ==
  UNION { { [BaseClass EXCEPT !.fields = fc, !.stmts = ss, !.ref = rf] :
              rf \in {"named", "ns"},
              ss \in StmtsOver(FieldStmts, {fc[n].name : n \in 1..Len(fc)}) } :
          fc \in FieldConfigs }

\* Every way the framework is referenced, and classes that ask for hooks.
ImportInits ==
  { BaseImport,
    ImportOf(<<Specifier("Component", "Component")>>, {"useState"}),
    ImportOf(<<Specifier("Component", "Component")>>, {"useState", "_useState"}),
    ImportOf(<<Specifier("Component", "Component")>>, {"useRef", "FC"}),
    ImportOf(<<Specifier("useState", "useState"), Specifier("Component", "Component")>>, {}),
    ImportOf(<<Specifier("Component", "Component"), Specifier("useState", "us")>>,
             {"useState"}) }

ImportClasses(rf) ==
  { [BaseClass EXCEPT !.ref = rf, !.state = sc, !.fields = fc, !.outcome = oc] :
      oc \in {"ok"},
      sc \in { <<>>, <<StateKey("a", TRUE, FALSE)>>,
               <<StateKey("a", TRUE, FALSE), StateKey("b", TRUE, FALSE)>> },
      fc \in { <<>>, <<Field("r", "user_defined_ref", FALSE)>> } }

\* Classes that need every kind of mutation: alias renames, removals,
\* render-local renames and site rewrites.
OrderPool ==
  << St("aliasDecl", "foo", "foo1"), St("useId", "foo1", ""), St("localDecl", "a", ""),
     St("useId", "a", ""), St("readProp", "foo", ""), St("readState", "a", ""),
     St("readField", "d", "") >>

Pick(pool, keep) == SelectSeq([i \in 1..Len(pool) |-> [st |-> pool[i], i |-> i]],
                              LAMBDA e : e.i \in keep)

OrderClasses ==
  { [BaseClass EXCEPT !.props = <<Prop("foo", d, NoTyping)>>,
                      !.state = <<StateKey("a", TRUE, FALSE)>>,
                      !.fields = <<Field("d", "user_defined_direct_ref", FALSE)>>,
                      !.stmts = [i \in 1..Len(Pick(OrderPool, keep)) |->
                                   Pick(OrderPool, keep)[i].st]] :
      d \in BOOLEAN, keep \in SUBSET (1..Len(OrderPool)) }

NodeComments(lead) ==
  [ leading |-> IF lead THEN <<Comment(" a comment ", FALSE)>> ELSE <<>>,
    comments |-> <<>>, original |-> TRUE ]

Start(f, t, im) ==
  /\ file = f
  /\ ts = t
  /\ imp = im
  /\ idx = 1
  /\ pc = "traversing"
  /\ heap = [i \in 1..Len(f) |-> ClassHeap(f[i])]
  /\ program = [i \in 1..Len(f) |-> Original(f[i], i)]
  /\ comments = [i \in 1..Len(f) |->
                   [ export |-> NodeComments(f[i].lead /\ IsDefaultExport(f[i])),
                     class |-> NodeComments(f[i].lead /\ ~IsDefaultExport(f[i])) ]]
  /\ body = [i \in 1..Len(f) |-> NoBody]
  /\ result = [i \in 1..Len(f) |-> NoResult]
  /\ log = [i \in 1..Len(f) |-> <<>>]

InitVisitor ==
  \E f \in NonEmptySeqs(VisitorClasses, MaxDecls), t \in BOOLEAN : Start(f, t, BaseImport)

InitState == \E c \in StateClasses, t \in BOOLEAN : Start(<<c>>, t, BaseImport)

InitProps == \E c \in PropClasses : Start(<<c>>, FALSE, BaseImport)

InitTyping == \E c \in TypingClasses, t \in BOOLEAN : Start(<<c>>, t, BaseImport)

InitFields == \E c \in FieldClasses, t \in BOOLEAN : Start(<<c>>, t, BaseImport)

InitOrder == \E c \in OrderClasses : Start(<<c>>, FALSE, BaseImport)

InitImports ==
  \/ \E rf \in {"global", "ns"}, t \in BOOLEAN :
       \E f \in NonEmptySeqs(ImportClasses(rf), MaxDecls) : Start(f, t, BaseImport)
  \/ \E im \in ImportInits, t \in BOOLEAN :
       \E f \in NonEmptySeqs(ImportClasses("named"), MaxDecls) : Start(f, t, im)

Init ==
  \/ InitVisitor
  \/ InitState
  \/ InitProps
  \/ InitTyping
  \/ InitFields
  \/ InitOrder
  \/ InitImports

Spec == Init /\ [][Next]_vars

(***************************************************************************)
(* Observations on the transformed file                                    *)
(***************************************************************************)
Decls == 1..Len(file)
Visited(i) == i < idx
Done(i) == result[i].done

Preamble(i) == result[i].preamble
PreambleOf(i, kind) == SelectSeq(Preamble(i), LAMBDA st : st.kind = kind)

\* The nodes of the function produced for declaration i.
OutRoots(i) ==
  {result[i].body} \cup UNION {Range(Preamble(i)[n].args) : n \in 1..Len(Preamble(i))}
Live(i) == Reach(heap[i], OutRoots(i))

IsId(h, n, name) == h[n].type = "Identifier" /\ h[n].name = name
IsThisMember(h, n, name) ==
  /\ h[n].type = "MemberExpression"
  /\ h[n].name = name
  /\ h[h[n].kids[1]].type = "ThisExpression"
IsStateRead(h, n) ==
  /\ h[n].type = "MemberExpression"
  /\ IsThisMember(h, h[n].kids[1], "state")

SitesIn(i, owner) == SelectSeq(AllSites(file[i]), LAMBDA s : s.owner = owner)

RewriterOps ==
  {"aliasRename", "renderRename", "remove", "propSite", "propsObjSite", "stateSite",
   "fieldSite", "typing", "import", "splice", "replace"}

(***************************************************************************)
(* C1: when analyzeBody raises an AnalysisError for a class declaration,   *)
(* default-exported or not, none of the rewriter's mutations is applied:   *)
(* the tree of the class, the statement it stands in and the import        *)
(* declaration's calls are as they were, no function is produced, and the  *)
(* declaration (the export default statement when the class is default-    *)
(* exported, the class declaration otherwise) gains exactly one leading    *)
(* comment, " react-declassify-disable Cannot perform transformation:      *)
(* <message> ", its other comments kept; the visitor returns, so the       *)
(* traversal goes on (only an exception of another kind ends the run).     *)
(***************************************************************************)
DiagnosticLeavesDeclaration ==
  /\ \A i \in Decls :
       (Visited(i) /\ file[i].outcome = "diag") =>
         LET outer == IF file[i].shape = "plain" THEN "class" ELSE "export"
             inner == IF file[i].shape = "plain" THEN "export" ELSE "class"
             before == NodeComments(file[i].lead)
             now == comments[i][outer]
         IN  /\ \A n \in 1..Len(log[i]) : log[i][n].op \notin RewriterOps
             /\ heap[i] = ClassHeap(file[i])
             /\ program[i] = Original(file[i], i)
             /\ ~Done(i)
             /\ Len(now.leading) = Len(before.leading) + 1
             /\ now.leading[1].text =
                  " react-declassify-disable Cannot perform transformation: "
                    \o file[i].message \o " "
             /\ \A n \in 1..Len(before.leading) :
                  now.leading[n + 1].text = before.leading[n].text
             /\ now.comments = now.leading
             /\ comments[i][inner] = NodeComments(FALSE)
  /\ pc = "aborted" => file[idx].outcome = "defect"

WitnessDiagnostic ==
  \E i \in Decls :
    /\ i + 1 \in Decls
    /\ file[i].outcome = "diag"
    /\ file[i].shape = "exportNamed"
    /\ file[i].lead
    /\ Done(i + 1)

(***************************************************************************)
(* C7: after a successful rewrite a named class has become a const         *)
(* declaration binding the class's identifier to the function, followed by *)
(* "export default <identifier>" exactly when the class was a default      *)
(* export; an anonymous default-exported class is replaced in place by the *)
(* function, inside the export default statement that held it.             *)
(***************************************************************************)
OutputShape ==
  \A i \in Decls :
    Done(i) =>
      LET out == program[i]
      IN  CASE file[i].shape = "plain" ->
                 /\ Len(out) = 1
                 /\ out[1].type = "VariableDeclaration"
                 /\ out[1].id = ClassId(i) /\ out[1].init = "function"
            [] file[i].shape = "exportNamed" ->
                 /\ Len(out) = 2
                 /\ out[1].type = "VariableDeclaration"
                 /\ out[1].id = ClassId(i) /\ out[1].init = "function"
                 /\ out[2].type = "ExportDefaultDeclaration"
                 /\ out[2].id = ClassId(i) /\ out[2].init = "identifier"
            [] file[i].shape = "exportAnon" ->
                 /\ Len(out) = 1
                 /\ out[1].type = "ExportDefaultDeclaration"
                 /\ out[1].id = "" /\ out[1].init = "function"

WitnessOutputShape ==
  \E i, j \in Decls :
    /\ Done(i) /\ file[i].shape = "exportNamed"
    /\ Done(j) /\ file[j].shape \in {"exportAnon", "plain"}

\* The callee is a reference to a hook of the framework: a member of the global
\* or of the namespace, or the local name of a specifier of the import.
RefersToHook(callee, name) ==
  \/ callee.object \in {GlobalName, NsLocal} /\ callee.name = name
  \/ /\ callee.object = ""
     /\ \E n \in 1..Len(imp.specifiers) : imp.specifiers[n].local = callee.name

(***************************************************************************)
(* C4: after a successful rewrite the preamble holds exactly one state-    *)
(* hook declaration per state key, in the order the keys were declared:    *)
(* [localName, localSetterName] = useState(init), the key's initializer    *)
(* the only argument when one was recorded, no argument otherwise.         *)
(***************************************************************************)
StateDeclarations ==
  \A i \in Decls :
    Done(i) =>
      LET keys == file[i].state
          decls == PreambleOf(i, "state")
      IN  /\ Len(decls) = Len(keys)
          /\ \A n \in 1..Len(keys) :
               /\ decls[n].name = keys[n].name
               /\ decls[n].setter = "set_" \o keys[n].name
               /\ RefersToHook(decls[n].callee, "useState")
               /\ IF keys[n].init
                  THEN /\ Len(decls[n].args) = 1
                       /\ heap[i][decls[n].args[1]] = Num("init:" \o keys[n].name)
                  ELSE decls[n].args = <<>>

WitnessStateDeclarations ==
  \E i \in Decls :
    /\ Done(i)
    /\ Len(file[i].state) = 2
    /\ file[i].state[1].init /\ ~file[i].state[2].init
    /\ file[i].state[1].name = "a"
    /\ \E n \in 1..Len(file[i].stmts) : file[i].stmts[n].t = "setRead"

(***************************************************************************)
(* C5: after a successful rewrite, for every state field and every site    *)
(* recorded for it, in whatever order: each read site of the function has  *)
(* become the field's local name, each setState site has become a call of  *)
(* the field's setter on the site's update value, no update is replaced by *)
(* the rewrite of another site, and the function holds no this.state read. *)
(***************************************************************************)
StateSitesRewritten ==
  \A i \in Decls :
    Done(i) =>
      LET h == heap[i]
          live == Live(i)
          sites == SitesIn(i, "state")
      IN  /\ \A n \in 1..Len(sites) :
               LET s == sites[n]
                   now == NodeAt(h, s.path)
               IN  /\ now \in live
                   /\ IF s.type = "expr"
                      THEN IsId(h, now, s.name)
                      ELSE /\ h[now].type = "CallExpression"
                           /\ Len(h[now].kids) = 2
                           /\ IsId(h, h[now].kids[1], "set_" \o s.name)
                           /\ h[now].kids[2] = NodeAt(h, s.valuePath)
          /\ \A n \in live : ~IsStateRead(h, n)

(***************************************************************************)
(* C2 as stated: a ref container is declared as a ref-hook call seeded     *)
(* with null and every read of it becomes <localName>.current; a direct    *)
(* ref is declared as a ref-hook call seeded with its initial value.       *)
(***************************************************************************)
RefSeeds(i) ==
  \A n \in 1..Len(file[i].fields) :
    LET f == file[i].fields[n]
        decls == SelectSeq(PreambleOf(i, "ref"), LAMBDA st : st.name = f.name)
    IN  f.type # "user_defined_function" =>
          /\ Len(decls) = 1
          /\ RefersToHook(decls[1].callee, "useRef")
          /\ Len(decls[1].args) = 1
          /\ heap[i][decls[1].args[1]] =
               IF f.type = "user_defined_ref" THEN N("NullLiteral", "", <<>>)
               ELSE Num("init:" \o f.name)

IsCurrentOf(h, n, name) ==
  /\ h[n].type = "MemberExpression"
  /\ h[n].name = "current"
  /\ IsId(h, h[n].kids[1], name)

FieldType(i, name) ==
  LET fs == SelectSeq(file[i].fields, LAMBDA f : f.name = name) IN fs[1].type

RefContainerReadsCurrent ==
  \A i \in Decls :
    Done(i) =>
      /\ RefSeeds(i)
      /\ \A n \in 1..Len(SitesIn(i, "field")) :
           LET s == SitesIn(i, "field")[n]
           IN  FieldType(i, s.name) = "user_defined_ref" =>
                 IsCurrentOf(heap[i], NodeAt(heap[i], s.path), s.name)

(***************************************************************************)
(* C2, amended: a ref container is declared as a ref-hook call seeded with *)
(* null and every read of it becomes the bare local name; a direct ref is  *)
(* declared as a ref-hook call seeded with its initial value and every     *)
(* read of it becomes <localName>.current.                                 *)
(***************************************************************************)
RefRewrites ==
  \A i \in Decls :
    Done(i) =>
      /\ RefSeeds(i)
      /\ \A n \in 1..Len(SitesIn(i, "field")) :
           LET s == SitesIn(i, "field")[n]
               now == NodeAt(heap[i], s.path)
           IN  /\ now \in Live(i)
               /\ FieldType(i, s.name) = "user_defined_ref" => IsId(heap[i], now, s.name)
               /\ FieldType(i, s.name) = "user_defined_direct_ref" =>
                    IsCurrentOf(heap[i], now, s.name)

WitnessRefRewrites ==
  \E i \in Decls :
    /\ Done(i)
    /\ \E n, m \in 1..Len(SitesIn(i, "field")) :
         /\ FieldType(i, SitesIn(i, "field")[n].name) = "user_defined_ref"
         /\ FieldType(i, SitesIn(i, "field")[m].name) = "user_defined_direct_ref"

(***************************************************************************)
(* C3: with a named import, over the getReactImport calls of a run, the    *)
(* import declaration gains at most one specifier per requested name, each *)
(* new specifier imports a requested name, every call for a name returns   *)
(* the same local identifier, and that identifier is no binding that       *)
(* existed before (unless it is the specifier the name was imported by).   *)
(***************************************************************************)
ImportOncePerName ==
  LET calls == imp.calls
      names == {calls[n].name : n \in 1..Len(calls)}
      added == (imp.given + 1)..Len(imp.specifiers)
  IN  /\ \A n \in added : imp.specifiers[n].imported \in names
      /\ \A n, m \in added :
           imp.specifiers[n].imported = imp.specifiers[m].imported => n = m
      /\ Cardinality(added) <= Cardinality(names)
      /\ \A n, m \in 1..Len(calls) :
           calls[n].name = calls[m].name => calls[n].local = calls[m].local
      /\ \A n \in 1..Len(calls) :
           \/ calls[n].local \notin imp.bindings
           \/ \E m \in 1..imp.given :
                /\ imp.specifiers[m].imported = calls[n].name
                /\ imp.specifiers[m].local = calls[n].local

(***************************************************************************)
(* C6: every prop with a default value and a declared type (a property     *)
(* signature with a type annotation) ends optional, its type a union that  *)
(* holds undefined exactly once, whatever the declared type was; the       *)
(* typing of a prop without a default value is unchanged.                  *)
(***************************************************************************)
CountOf(seq, x) == Cardinality({n \in 1..Len(seq) : seq[n] = x})

DefaultedPropsWidened ==
  \A i \in Decls :
    Done(i) =>
      \A n \in 1..Len(file[i].props) :
        LET given == file[i].props[n]
            now == body[i].props.props[n].typing
        IN  IF given.dflt
            THEN (given.typing.sig = "TSPropertySignature" /\ given.typing.hasAnnot) =>
                   /\ now.optional
                   /\ now.union
                   /\ CountOf(now.types, "undefined") = 1
            ELSE now = given.typing

RenameOps == {"aliasRename", "renderRename"}
SiteOps == {"propSite", "propsObjSite", "stateSite", "fieldSite"}

\* In the log of declaration i no mutation of kind later comes before one of
\* kind earlier.
Precede(i, earlier, later) ==
  \A x, y \in 1..Len(log[i]) :
    (log[i][x].op \in later /\ log[i][y].op \in earlier) => y < x

(***************************************************************************)
(* C8 as stated: every prop alias rename and every render-local rename is  *)
(* applied before any declaration of locals.removePaths is removed, and    *)
(* every rename before the first prop, state or user-field site rewrite.   *)
(***************************************************************************)
RenamesBeforeRemovals ==
  \A i \in Decls :
    /\ Precede(i, RenameOps, {"remove"})
    /\ Precede(i, RenameOps, SiteOps)

(***************************************************************************)
(* C8, amended: every prop alias rename is applied before any declaration  *)
(* of locals.removePaths is removed, every render-local rename after the   *)
(* removals, and every rename and removal before the first prop, state or  *)
(* user-field site rewrite.                                                *)
(***************************************************************************)
RewriteOrder ==
  \A i \in Decls :
    /\ Precede(i, {"aliasRename"}, {"remove"})
    /\ Precede(i, {"remove"}, {"renderRename"})
    /\ Precede(i, RenameOps \cup {"remove"}, SiteOps)

WitnessRewriteOrder ==
  \E i \in Decls :
    /\ Done(i)
    /\ \A op \in {"aliasRename", "remove", "renderRename", "propSite", "stateSite",
                  "fieldSite"} :
         \E x \in 1..Len(log[i]) : log[i][x].op = op

(***************************************************************************)
(* C9: when some prop has a default value, every recorded read of every    *)
(* prop has become the prop's canonical local identifier, and that         *)
(* identifier is bound by the one destructuring statement of the preamble, *)
(* with the prop's default as the destructuring default; otherwise every   *)
(* recorded this.props has become the identifier props and the prop reads  *)
(* are member accesses on it.  Either way every identifier of the function *)
(* that names a prop or props is bound by the destructuring statement or   *)
(* by the parameter.                                                       *)
(***************************************************************************)
PropNames(i) == {file[i].props[n].name : n \in 1..Len(file[i].props)}

Bound(i, name) ==
  \/ name = "props" /\ result[i].params = <<"props">>
  \/ \E d \in Range(PreambleOf(i, "destructure")) :
       \E e \in Range(d.props) : e.local = name

PropReadsBound ==
  \A i \in Decls :
    Done(i) =>
      LET h == heap[i]
          cls == file[i]
          reads == SitesIn(i, "prop")
          accesses == SitesIn(i, "props")
          destr == PreambleOf(i, "destructure")
      IN  /\ IF \E n \in 1..Len(cls.props) : cls.props[n].dflt
             THEN /\ Len(destr) = 1
                  /\ \A n \in 1..Len(reads) :
                       /\ NodeAt(h, reads[n].path) \in Live(i)
                       /\ IsId(h, NodeAt(h, reads[n].path), reads[n].name)
                       /\ \E e \in Range(destr[1].props) :
                            /\ e.key = reads[n].name
                            /\ e.local = reads[n].name
                  /\ \A n \in 1..Len(cls.props) :
                       cls.props[n].dflt =>
                         \E e \in Range(destr[1].props) :
                           /\ e.key = cls.props[n].name
                           /\ e.dflt # 0
                           /\ h[e.dflt] = Num("dflt:" \o cls.props[n].name)
             ELSE /\ \A n \in 1..Len(accesses) :
                       /\ NodeAt(h, accesses[n].path) \in Live(i)
                       /\ IsId(h, NodeAt(h, accesses[n].path), "props")
                  /\ \A n \in 1..Len(reads) :
                       LET now == NodeAt(h, reads[n].path)
                       IN  /\ h[now].type = "MemberExpression"
                           /\ h[now].name = reads[n].name
                           /\ IsId(h, h[now].kids[1], "props")
          /\ \A n \in Live(i) :
               (h[n].type = "Identifier" /\ h[n].name \in PropNames(i) \cup {"props"})
                 => Bound(i, h[n].name)

WitnessPropReadsBound ==
  \E i \in Decls :
    /\ Done(i)
    /\ Len(file[i].props) = 2
    /\ file[i].props[1].dflt /\ ~file[i].props[2].dflt
    /\ \E n \in 1..Len(SitesIn(i, "prop")) : SitesIn(i, "prop")[n].name = "bar"
    /\ \E n \in 1..Len(file[i].stmts) : file[i].stmts[n].t = "aliasDecl"

(***************************************************************************)
(* C10: the function takes the one parameter props exactly when its body   *)
(* refers to props: a this.props was rewritten to props, or the preamble   *)
(* destructures from props; otherwise it takes no parameter.               *)
(***************************************************************************)
RefersToProps(i) ==
  \/ \E n \in Live(i) : IsId(heap[i], n, "props")
  \/ \E st \in Range(Preamble(i)) : st.kind = "destructure" /\ st.name = "props"

ParamsIffPropsUsed ==
  \A i \in Decls :
    Done(i) =>
      result[i].params = IF RefersToProps(i) THEN <<"props">> ELSE <<>>

WitnessParams ==
  \E i \in Decls :
    /\ Done(i) /\ result[i].params = <<"props">>
    /\ \E st \in Range(Preamble(i)) : st.kind = "destructure" /\ st.name = "props"
    /\ ~ \E n \in Live(i) : IsId(heap[i], n, "props")

====
